---------------------------- MODULE Spec2Model ----------------------------
(***************************************************************************)
(* Model of src/src/algorithms/rand-kcz.go: the Randomized Double Kaczmarz *)
(* solver RkRk, its row sampler getRandomRow, the row-probability builder  *)
(* getRowsProbability and the chunked squared norm euclideanNorm.          *)
(*                                                                         *)
(* Numbers.  Inputs are integer valued.  Every float64 the program derives *)
(* from them by + - * / is modelled as an exact fraction <<n, d>> in       *)
(* lowest terms with d > 0; <<0, 0>> stands for a non-finite float (NaN or *)
(* +-Inf), which absorbs every further operation.  Indices are the         *)
(* program's 0-based indices; sequences are 1-based, so row r of M is      *)
(* M[r + 1].                                                               *)
(***************************************************************************)
EXTENDS Integers, Sequences, FiniteSets, TLC

\* rand-kcz.go:18
GOROUTINES == 10

(* ------------------------------ bounds -------------------------------- *)
\* longest vector handed to euclideanNorm in SpecNorm
MaxLen == 11
\* largest row count of U, V and y in Spec
MaxRows == 2
\* largest iteration count in Spec
MaxIter == 2
\* largest row count and iteration count in SpecSmall
SmallRows == 1
SmallIter == 1
\* largest iteration count of the calls of Spec with mismatched y or B
MaxIterMismatch == 1
\* largest n of the n x n identity systems in Spec
MaxEye == 3
\* the uniform draw in [0,1) takes the values k / RandDen, k in 0..RandDen-1
RandDen == 2
\* largest row count and row length of the matrices of SpecProb
MaxProbRows == 3
MaxProbCols == 11
\* longest probability vector of SpecSampler
MaxProbLen == 3
\* number of receives of the caller in SpecSampler
MaxRecv == 2
\* longest flag list a call's list is compared with
MaxFlags == 3
\* largest row count of U and V in SpecSetup
SetupRows == 2
\* largest iteration count in SpecRows
RowsIter == 1
\* row count of the tall V of SpecTall, one more than U has columns
TallRows == 11

(* --------------------------- float arithmetic ------------------------- *)
Abs(k) == IF k < 0 THEN -k ELSE k

RECURSIVE Gcd(_, _)
Gcd(a, b) == IF b = 0 THEN a ELSE Gcd(b, a % b)

NonFinite == <<0, 0>>

IsFinite(p) == p[2] # 0

\* the float n / d: x / 0 is NaN or +-Inf
Frac(n, d) ==
    IF d = 0 THEN NonFinite
    ELSE LET s == IF d < 0 THEN -1 ELSE 1
             g == Gcd(Abs(n), Abs(d))
         IN  <<(s * n) \div g, (s * d) \div g>>

FromInt(k) == <<k, 1>>

FAdd(p, q) ==
    IF IsFinite(p) /\ IsFinite(q)
    THEN Frac(p[1] * q[2] + q[1] * p[2], p[2] * q[2]) ELSE NonFinite

FSub(p, q) ==
    IF IsFinite(p) /\ IsFinite(q)
    THEN Frac(p[1] * q[2] - q[1] * p[2], p[2] * q[2]) ELSE NonFinite

FMul(p, q) ==
    IF IsFinite(p) /\ IsFinite(q)
    THEN Frac(p[1] * q[1], p[2] * q[2]) ELSE NonFinite

\* the divisor is always a finite float here (a squared norm of an input row)
FDiv(p, q) ==
    IF IsFinite(p) /\ IsFinite(q)
    THEN Frac(p[1] * q[2], p[2] * q[1]) ELSE NonFinite

\* p > q on floats: false as soon as one side is NaN
FGt(p, q) == IsFinite(p) /\ IsFinite(q) /\ p[1] * q[2] > q[1] * p[2]

\* p >= q on floats
FGe(p, q) == IsFinite(p) /\ IsFinite(q) /\ p[1] * q[2] >= q[1] * p[2]

RECURSIVE FSeqSum(_)
FSeqSum(s) == IF s = <<>> THEN FromInt(0) ELSE FAdd(Head(s), FSeqSum(Tail(s)))

(* ------------------------------ VectorMath ---------------------------- *)
\* an integer-valued []float64
Floats(v) == [k \in 1..Len(v) |-> FromInt(v[k])]

\* the Go slice expression v[lo:hi] with hi <= len(v) panics unless 0 <= lo <= hi
SliceFaults(lo, hi) == lo < 0 \/ lo > hi

Slice(v, lo, hi) == SubSeq(v, lo + 1, hi)

\* rand-kcz.go:48, the bounds of the slice handed to worker i for a vector of
\* length n
ChunkLo(n, i) == (i * n) \div GOROUTINES

ChunkHi(n, i) == (i + 1) * (n \div GOROUTINES)

\* rand-kcz.go:34-41
sumSquares(slice) == FSeqSum([k \in 1..Len(slice) |-> FMul(slice[k], slice[k])])

\* the mathematical squared L2 norm, which euclideanNorm is documented to return
SquaredNorm(v) == FSeqSum([k \in 1..Len(v) |-> FMul(v[k], v[k])])

\* rand-kcz.go:47-49: some chunk slice of a vector of length n panics
euclideanNormFaults(n) ==
    \E w \in 0..(GOROUTINES - 1) : SliceFaults(ChunkLo(n, w), ChunkHi(n, w))

\* rand-kcz.go:44-58 as a function: the sum of the GOROUTINES partial sums
\* (meaningful when no chunk slice panics)
euclideanNorm(v) ==
    FSeqSum([k \in 1..GOROUTINES |->
        sumSquares(Slice(v, ChunkLo(Len(v), k - 1), ChunkHi(Len(v), k - 1)))])

(* ------------------------------- state -------------------------------- *)
VARIABLES
    \* one call of euclideanNorm, goroutine by goroutine (SpecNorm)
    vector,      \* its argument, integer valued
    npc,         \* "spawn", "recv", "close", "done", "panic"
    ni,          \* the loop counter i of the loop npc names
    nworkers,    \* the workers w whose sumSquares goroutine has not sent yet
    nc,          \* the buffered channel c: the partial sums sent, oldest first
    nclosed,     \* c has been closed
    nsum,        \* sum
    nret,        \* the value returned, NonFinite before the return
    \* RkRk's arguments
    U, V,        \* matrices, a sequence of rows of integers
    y,           \* the first column of y, by row
    B,           \* the column B, (Len(B) x 1)
    iterations,
    keepErrors,  \* the variadic flag list
    \* RkRk's locals
    pc,          \* "setup", "loop", "recv2", "recv3", "updx", "updb", "err",
                 \* "done", "panic"
    fault,       \* what the program panicked on, "" while it has not
    i, x, b, errors, uRandomRow, vRandomRow, uRowsProb, vRowsProb, points,
    wg,          \* the WaitGroup's counter
    closed,      \* the channels of the RkRk call closed so far, among "c2", "c3"
                 \* and the builders' "cU", "cV"
    \* the two getRowsProbability goroutines, by matrix name "U", "V"
    gpc,         \* "spawn", "recv", "close", "done"
    gi,          \* the loop counter i of the loop gpc names
    gworkers,    \* the rows whose computeRowProbability goroutine has not sent yet
    gc,          \* the buffered channel c: the values sent, oldest first
    \* the getRandomRow goroutines, by <<channel, iteration that started it>>
    samplers,    \* [maxRows, chosen, spc]: spc is "draw" at line 25, "send" at 27
    delivered    \* by channel, the last receive of RkRk: the sampler it was
                 \* from and the iteration i it happened in, [by, at]

normVars == <<vector, npc, ni, nworkers, nc, nclosed, nsum, nret>>

inputVars == <<U, V, y, B, iterations, keepErrors>>

mainVars == <<pc, fault, i, x, b, errors, uRandomRow, vRandomRow, points>>

builderVars == <<uRowsProb, vRowsProb, wg, closed, gpc, gi, gworkers, gc>>

samplerVars == <<samplers, delivered>>

rkrkVars == <<inputVars, mainVars, builderVars, samplerVars>>

vars == <<normVars, inputVars, mainVars, builderVars, samplerVars>>


(* ---------------- euclideanNorm, goroutine by goroutine ---------------- *)
\* the state of the RkRk call while SpecNorm runs one euclideanNorm call
IdleRkRk ==
    /\ U = <<>> /\ V = <<>> /\ y = <<>> /\ B = <<>>
    /\ iterations = 0 /\ keepErrors = <<>>
    /\ pc = "done" /\ fault = "" /\ i = 0 /\ x = <<>> /\ b = <<>>
    /\ errors = <<>> /\ uRandomRow = 0 /\ vRandomRow = 0 /\ points = <<>>
    /\ uRowsProb = <<>> /\ vRowsProb = <<>> /\ wg = 0 /\ closed = {}
    /\ gpc = <<>> /\ gi = <<>> /\ gworkers = <<>> /\ gc = <<>>
    /\ samplers = <<>> /\ delivered = <<>>

\* the vector of length n that is a at index p (0-based) and z elsewhere
Spike(n, p, a, z) == [k \in 1..n |-> IF k = p + 1 THEN a ELSE z]

\* the values of the elements of the vectors of SpecNorm
NormVals == {-1, 2}

\* the arguments of euclideanNorm in SpecNorm: of every length up to MaxLen, the
\* zero vector and the vectors with one nonzero element
NormInputs ==
    {Spike(n, 0, 0, 0) : n \in 0..MaxLen}
        \cup UNION {{Spike(n, p, a, 0) : p \in 0..(n - 1), a \in NormVals} : n \in 1..MaxLen}

\* rand-kcz.go:45, on entry
NormInit ==
    /\ vector \in NormInputs
    /\ npc = "spawn" /\ ni = 0 /\ nworkers = {} /\ nc = <<>> /\ nclosed = FALSE
    /\ nsum = FromInt(0) /\ nret = NonFinite
    /\ IdleRkRk

\* rand-kcz.go:47-49, one turn of the loop: the slice expression is evaluated
\* by the caller, then the goroutine is started
NormSpawn ==
    /\ npc = "spawn"
    /\ IF SliceFaults(ChunkLo(Len(vector), ni), ChunkHi(Len(vector), ni))
       THEN /\ npc' = "panic"
            /\ UNCHANGED <<ni, nworkers>>
       ELSE /\ nworkers' = nworkers \cup {ni}
            /\ ni' = IF ni + 1 < GOROUTINES THEN ni + 1 ELSE 0
            /\ npc' = IF ni + 1 < GOROUTINES THEN "spawn" ELSE "recv"
    /\ UNCHANGED <<vector, nc, nclosed, nsum, nret>>
    /\ UNCHANGED rkrkVars

\* rand-kcz.go:34-41, worker w: sum its slice and send (c has room for all)
NormWorker(w) ==
    /\ npc # "panic"
    /\ w \in nworkers
    /\ nc' = Append(nc, sumSquares(Floats(
                 Slice(vector, ChunkLo(Len(vector), w), ChunkHi(Len(vector), w)))))
    /\ nworkers' = nworkers \ {w}
    /\ UNCHANGED <<vector, npc, ni, nclosed, nsum, nret>>
    /\ UNCHANGED rkrkVars

\* rand-kcz.go:52-54, one turn of the loop
NormRecv ==
    /\ npc = "recv"
    /\ nc # <<>>
    /\ nsum' = FAdd(nsum, Head(nc))
    /\ nc' = Tail(nc)
    /\ ni' = IF ni + 1 < GOROUTINES THEN ni + 1 ELSE 0
    /\ npc' = IF ni + 1 < GOROUTINES THEN "recv" ELSE "close"
    /\ UNCHANGED <<vector, nworkers, nclosed, nret>>
    /\ UNCHANGED rkrkVars

\* rand-kcz.go:55-57
NormReturn ==
    /\ npc = "close"
    /\ nclosed' = TRUE
    /\ nret' = nsum
    /\ npc' = "done"
    /\ UNCHANGED <<vector, ni, nworkers, nc, nsum>>
    /\ UNCHANGED rkrkVars

NormNext ==
    \/ NormSpawn
    \/ \E w \in 0..(GOROUTINES - 1) : NormWorker(w)
    \/ NormRecv
    \/ NormReturn

SpecNorm == NormInit /\ [][NormNext]_vars


(* ------------------------------- RkRk --------------------------------- *)
Rows(M) == Len(M)

Cols(M) == Len(M[1])

\* mat.Dense.RawRowView(r): row r (0-based)
RawRowView(M, r) == M[r + 1]

\* rand-kcz.go:60-62: mat.Norm(matrix, 2) is the Frobenius norm, so its square
\* is the sum of the squares of all entries
frobeniusSquared(M) ==
    FSeqSum([r \in 1..Rows(M) |-> SquaredNorm(Floats(M[r]))])

Matrix(m) == IF m = "U" THEN U ELSE V

\* rand-kcz.go:114-115, the probability vector the sampler on channel c reads
RowsProbOf(c) == IF c = "c2" THEN uRowsProb ELSE vRowsProb

Zeros(n) == [k \in 1..n |-> FromInt(0)]

\* aux2.Mul(aux, v) for the 1 x n row aux and the n x 1 column v
Dot(row, v) == FSeqSum([k \in 1..Len(row) |-> FMul(row[k], v[k])])

\* aux4.Scale(t, aux.T()) then v.Add(v, aux4)
AddScaled(v, t, row) == [k \in 1..Len(v) |-> FAdd(v[k], FMul(t, row[k]))]

(* the inputs of Spec *)
\* the r x c matrix with d[i] at (i, i) and 0 elsewhere
Diag(r, c, d) == [ii \in 1..r |-> [jj \in 1..c |-> IF ii = jj THEN d[ii] ELSE 0]]

\* the column 1, 2, .., n
Ramp(n) == [k \in 1..n |-> k]

Ones(n) == [k \in 1..n |-> 1]

\* the r x c identity
Eye(r, c) == Diag(r, c, Ones(r))

\* the matrices of Spec: identities, square or not
Matrices(rs, cs) == {Eye(r, c) : r \in rs, c \in cs}

\* row lengths: below, at and (by one) above the worker count
ColSizes == {1, 3, GOROUTINES}

\* the flag lists of Spec: none, one, and two flags
FlagLists == {<<>>, <<TRUE>>, <<FALSE>>, <<FALSE, TRUE>>}

\* rand-kcz.go:85-109: the state at wg.Wait(), both builders started
InitRkRk ==
    /\ pc = "setup" /\ fault = "" /\ i = 0
    /\ errors = Zeros(iterations)
    /\ x = Zeros(Cols(U))
    /\ b = Zeros(Cols(V))
    /\ uRandomRow = 0 /\ vRandomRow = 0 /\ points = <<>>
    /\ uRowsProb = Zeros(Rows(U))
    /\ vRowsProb = Zeros(Rows(V))
    /\ wg = 2 /\ closed = {}
    /\ gpc = [m \in {"U", "V"} |-> "spawn"]
    /\ gi = [m \in {"U", "V"} |-> 0]
    /\ gworkers = [m \in {"U", "V"} |-> {}]
    /\ gc = [m \in {"U", "V"} |-> <<>>]
    /\ samplers = <<>>
    /\ delivered = [c \in {"c2", "c3"} |-> [by |-> <<c, -1>>, at |-> -1]]

\* no euclideanNorm call is traced goroutine by goroutine in Spec
IdleNorm ==
    /\ vector = <<>> /\ npc = "done" /\ ni = 0 /\ nworkers = {} /\ nc = <<>>
    /\ nclosed = FALSE /\ nsum = FromInt(0) /\ nret = NonFinite

\* y has U's row count and B has V's column count
Consistent == Len(y) = Rows(U) /\ Len(B) = Cols(V)

\* the calls of Spec: systems of consistent dimensions run for up to MaxIter
\* iterations, the spec's end-to-end systems (U = V = identity, y = B =
\* 1, 2, .., n), and systems where y or B has another length than U and V
\* ask for (up to MaxIterMismatch iterations)
Init ==
    /\ \/ /\ U \in Matrices(1..MaxRows, ColSizes)
          /\ V \in Matrices(1..MaxRows, ColSizes)
          /\ y = Ramp(Rows(U))
          /\ B = Ramp(Cols(V))
          /\ iterations \in 0..MaxIter
       \/ /\ \E n \in 1..MaxEye : U = Eye(n, n) /\ V = Eye(n, n)
          /\ y = Ramp(Rows(U))
          /\ B = Ramp(Cols(V))
          /\ iterations \in 0..MaxIter
       \/ /\ U \in Matrices(1..MaxRows, ColSizes)
          /\ V \in Matrices(1..MaxRows, ColSizes)
          /\ y \in {Ramp(n) : n \in 1..(MaxRows + 1)}
          /\ B \in {Ramp(n) : n \in {Cols(V), Cols(V) + 1}}
          /\ ~Consistent
          /\ iterations \in 0..MaxIterMismatch
    /\ keepErrors \in FlagLists
    /\ InitRkRk
    /\ IdleNorm

\* SpecSmall's calls: as the first family of Init, within SmallRows and SmallIter
InitSmall ==
    /\ U \in Matrices(1..SmallRows, ColSizes)
    /\ V \in Matrices(1..SmallRows, ColSizes)
    /\ y = Ramp(Rows(U))
    /\ B = Ramp(Cols(V))
    /\ iterations \in 0..SmallIter
    /\ keepErrors \in FlagLists
    /\ InitRkRk
    /\ IdleNorm

(* getRowsProbability(probVector, frobenius, matrix, rownum, group) for m *)
Panic(why) ==
    /\ pc' = "panic"
    /\ fault' = why

\* rand-kcz.go:73-75, one turn of the loop
BuilderSpawn(m) ==
    /\ pc # "panic"
    /\ gpc[m] = "spawn"
    /\ gworkers' = [gworkers EXCEPT ![m] = @ \cup {gi[m]}]
    /\ gi' = [gi EXCEPT ![m] = IF @ + 1 < Rows(Matrix(m)) THEN @ + 1 ELSE 0]
    /\ gpc' = [gpc EXCEPT ![m] = IF gi[m] + 1 < Rows(Matrix(m)) THEN "spawn" ELSE "recv"]
    /\ UNCHANGED <<uRowsProb, vRowsProb, wg, closed, gc>>
    /\ UNCHANGED <<normVars, inputVars, mainVars, samplerVars>>

\* rand-kcz.go:64-68, the goroutine of row r: euclideanNorm(row) / frobenius,
\* sent on c (which has room for all rows)
computeRowProbability(m, r) ==
    /\ pc # "panic"
    /\ r \in gworkers[m]
    /\ IF euclideanNormFaults(Cols(Matrix(m)))
       THEN /\ Panic("slice bounds out of range")
            /\ UNCHANGED <<gworkers, gc>>
       ELSE /\ gc' = [gc EXCEPT ![m] = Append(@,
                        FDiv(euclideanNorm(Floats(RawRowView(Matrix(m), r))),
                             frobeniusSquared(Matrix(m))))]
            /\ gworkers' = [gworkers EXCEPT ![m] = @ \ {r}]
            /\ UNCHANGED <<pc, fault>>
    /\ UNCHANGED <<uRowsProb, vRowsProb, wg, closed, gpc, gi>>
    /\ UNCHANGED <<i, x, b, errors, uRandomRow, vRandomRow, points>>
    /\ UNCHANGED <<normVars, inputVars, samplerVars>>

\* rand-kcz.go:77-79, one turn of the loop: probVector[i] = <-c
BuilderRecv(m) ==
    /\ pc # "panic"
    /\ gpc[m] = "recv"
    /\ gc[m] # <<>>
    /\ IF m = "U"
       THEN /\ uRowsProb' = [uRowsProb EXCEPT ![gi[m] + 1] = Head(gc[m])]
            /\ UNCHANGED vRowsProb
       ELSE /\ vRowsProb' = [vRowsProb EXCEPT ![gi[m] + 1] = Head(gc[m])]
            /\ UNCHANGED uRowsProb
    /\ gc' = [gc EXCEPT ![m] = Tail(@)]
    /\ gi' = [gi EXCEPT ![m] = IF @ + 1 < Rows(Matrix(m)) THEN @ + 1 ELSE 0]
    /\ gpc' = [gpc EXCEPT ![m] = IF gi[m] + 1 < Rows(Matrix(m)) THEN "recv" ELSE "close"]
    /\ UNCHANGED <<wg, closed, gworkers>>
    /\ UNCHANGED <<normVars, inputVars, mainVars, samplerVars>>

\* rand-kcz.go:71, the name of the channel c of the builder of matrix m
BuilderChan(m) == IF m = "U" THEN "cU" ELSE "cV"

\* rand-kcz.go:80-81: close(c); group.Done()
BuilderDone(m) ==
    /\ pc # "panic"
    /\ gpc[m] = "close"
    /\ closed' = closed \cup {BuilderChan(m)}
    /\ wg' = wg - 1
    /\ gpc' = [gpc EXCEPT ![m] = "done"]
    /\ UNCHANGED <<uRowsProb, vRowsProb, gi, gworkers, gc>>
    /\ UNCHANGED <<normVars, inputVars, mainVars, samplerVars>>


(* getRandomRow(rowsProb, maxRows, c), the goroutine s = <<c, iteration>> *)
\* distuv.Uniform{Min: 0, Max: 1}.Rand(): the draws of the model
Randoms == {Frac(k, RandDen) : k \in 0..(RandDen - 1)}

\* the row draw with maxRows itself among its values
RowDrawsInclusive(maxRows) == 0..maxRows

\* int(distuv.Uniform{Min: 0, Max: float64(maxRows)}.Rand())
RowDraws(maxRows) == 0..(maxRows - 1)

\* the acceptance test with >= for >
AcceptsOrEqual(prob, random) == FGe(prob, random)

\* the acceptance test as "unless random > prob", which lets NaN and 0 through
AcceptsUnlessGreater(prob, random) == ~FGt(random, prob)

\* rand-kcz.go:26, the acceptance test
Accepts(prob, random) == FGt(prob, random)

\* rand-kcz.go:21-22, the state of a sampler once it has drawn its first row
NewSampler(maxRows, chosen) ==
    [maxRows |-> maxRows, chosen |-> chosen, spc |-> "draw"]

\* rand-kcz.go:25-30, one turn of the loop up to the send: draw random, then
\* either go on to send chosen or draw another row (random is written again
\* before it is read again, so its value is not kept)
SamplerDraw(s) ==
    /\ pc # "panic"
    /\ s \in DOMAIN samplers
    /\ samplers[s].spc = "draw"
    /\ \E random \in Randoms :
         IF Accepts(RowsProbOf(s[1])[samplers[s].chosen + 1], random)
         THEN samplers' = [samplers EXCEPT ![s].spc = "send"]
         ELSE \E chosen \in RowDraws(samplers[s].maxRows) :
                samplers' = [samplers EXCEPT ![s].chosen = chosen]
    /\ UNCHANGED delivered
    /\ UNCHANGED <<normVars, inputVars, mainVars, builderVars>>

\* rand-kcz.go:27 meeting a receive of RkRk on the unbuffered channel c: the
\* sampler s hands over chosen and goes round its loop again
Deliver(c, s) ==
    /\ s \in DOMAIN samplers
    /\ s[1] = c
    /\ samplers[s].spc = "send"
    /\ samplers' = [samplers EXCEPT ![s].spc = "draw"]
    /\ delivered' = [delivered EXCEPT
           ![c] = [by |-> s, at |-> i]]

(* RkRk(U, V, y, B, iterations, keepErrors...) *)
\* wg.Wait() returning as soon as one of the two builders has called Done (the
\* counter set by wg.Add(1) for wg.Add(2))
WaitForOne ==
    /\ pc = "setup"
    /\ wg <= 1
    /\ pc' = "loop"
    /\ UNCHANGED <<fault, i, x, b, errors, uRandomRow, vRandomRow, points>>
    /\ UNCHANGED <<normVars, inputVars, builderVars, samplerVars>>

\* rand-kcz.go:110
Wait ==
    /\ pc = "setup"
    /\ wg = 0
    /\ pc' = "loop"
    /\ UNCHANGED <<fault, i, x, b, errors, uRandomRow, vRandomRow, points>>
    /\ UNCHANGED <<normVars, inputVars, builderVars, samplerVars>>

\* the loop test as i <= iterations
LoopStartOffByOne ==
    /\ pc = "loop"
    /\ i <= iterations
    /\ \E cu \in RowDraws(Rows(U)), cv \in RowDraws(Rows(V)) :
         samplers' = (<<"c2", i>> :> NewSampler(Rows(U), cu))
                        @@ (<<"c3", i>> :> NewSampler(Rows(V), cv))
                        @@ samplers
    /\ pc' = "recv2"
    /\ UNCHANGED <<fault, i, x, b, errors, uRandomRow, vRandomRow, points, delivered>>
    /\ UNCHANGED <<normVars, inputVars, builderVars>>

\* rand-kcz.go:112-115: the loop test and the two go statements
LoopStart ==
    /\ pc = "loop"
    /\ i < iterations
    /\ \E cu \in RowDraws(Rows(U)), cv \in RowDraws(Rows(V)) :
         samplers' = (<<"c2", i>> :> NewSampler(Rows(U), cu))
                        @@ (<<"c3", i>> :> NewSampler(Rows(V), cv))
                        @@ samplers
    /\ pc' = "recv2"
    /\ UNCHANGED <<fault, i, x, b, errors, uRandomRow, vRandomRow, points, delivered>>
    /\ UNCHANGED <<normVars, inputVars, builderVars>>

\* rand-kcz.go:116: uRandomRow := <-c2
ReceiveU ==
    /\ pc = "recv2"
    /\ \E s \in DOMAIN samplers :
         /\ Deliver("c2", s)
         /\ uRandomRow' = samplers[s].chosen
    /\ pc' = "recv3"
    /\ UNCHANGED <<fault, i, x, b, errors, vRandomRow, points>>
    /\ UNCHANGED <<normVars, inputVars, builderVars>>

\* line 117 followed at once by the b-update of lines 139-150, the x-update
\* of lines 119-137 left out of that iteration
ReceiveVThenUpdateB ==
    /\ pc = "recv3"
    /\ \E s \in DOMAIN samplers :
         /\ Deliver("c3", s)
         /\ vRandomRow' = samplers[s].chosen
    /\ pc' = "updb"
    /\ UNCHANGED <<fault, i, x, b, errors, uRandomRow, points>>
    /\ UNCHANGED <<normVars, inputVars, builderVars>>

\* rand-kcz.go:117: vRandomRow := <-c3
ReceiveV ==
    /\ pc = "recv3"
    /\ \E s \in DOMAIN samplers :
         /\ Deliver("c3", s)
         /\ vRandomRow' = samplers[s].chosen
    /\ pc' = "updx"
    /\ UNCHANGED <<fault, i, x, b, errors, uRandomRow, points>>
    /\ UNCHANGED <<normVars, inputVars, builderVars>>

\* the x-update adding into aux, the header over U's row, instead of into x
\* (aux.Add(aux, aux4) for x.Add(x, aux4)): the sum lands in U's storage
UpdateXAddsIntoAux ==
    /\ pc = "updx"
    /\ LET chosenRow == Floats(RawRowView(U, uRandomRow))
           aux2 == Dot(chosenRow, x)
           aux3 == FDiv(FSub(FromInt(y[uRandomRow + 1]), aux2),
                        euclideanNorm(chosenRow))
           sum == AddScaled(chosenRow, aux3, chosenRow)
       IN  /\ U' = [U EXCEPT ![uRandomRow + 1] = [k \in 1..Len(sum) |-> sum[k][1]]]
           /\ pc' = "updb"
    /\ UNCHANGED <<fault, i, x, b, errors, uRandomRow, vRandomRow, points>>
    /\ UNCHANGED <<V, y, B, iterations, keepErrors>>
    /\ UNCHANGED <<normVars, builderVars, samplerVars>>

\* rand-kcz.go:119-137: x <- x + ((y[uRow] - row . x) / euclideanNorm(row)) row^T
UpdateX ==
    /\ pc = "updx"
    /\ LET chosenRow == Floats(RawRowView(U, uRandomRow))
       IN  IF uRandomRow >= Len(y)
           THEN /\ Panic("y: row index out of range")
                /\ UNCHANGED x
           ELSE IF euclideanNormFaults(Len(chosenRow))
           THEN /\ Panic("slice bounds out of range")
                /\ UNCHANGED x
           ELSE LET aux2 == Dot(chosenRow, x)
                    aux3 == FDiv(FSub(FromInt(y[uRandomRow + 1]), aux2),
                                 euclideanNorm(chosenRow))
                IN  /\ x' = AddScaled(x, aux3, chosenRow)
                    /\ pc' = "updb"
                    /\ UNCHANGED fault
    /\ UNCHANGED <<i, b, errors, uRandomRow, vRandomRow, points>>
    /\ UNCHANGED <<normVars, inputVars, builderVars, samplerVars>>

\* rand-kcz.go:139-150: b <- b + ((x[vRow] - row . b) / euclideanNorm(row)) row^T
UpdateB ==
    /\ pc = "updb"
    /\ LET chosenRow == Floats(RawRowView(V, vRandomRow))
       IN  IF vRandomRow >= Len(x)
           THEN /\ Panic("x: row index out of range")
                /\ UNCHANGED b
           ELSE IF euclideanNormFaults(Len(chosenRow))
           THEN /\ Panic("slice bounds out of range")
                /\ UNCHANGED b
           ELSE LET aux2 == Dot(chosenRow, b)
                    aux3 == FDiv(FSub(x[vRandomRow + 1], aux2),
                                 euclideanNorm(chosenRow))
                IN  /\ b' = AddScaled(b, aux3, chosenRow)
                    /\ pc' = "err"
                    /\ UNCHANGED fault
    /\ UNCHANGED <<i, x, errors, uRandomRow, vRandomRow, points>>
    /\ UNCHANGED <<normVars, inputVars, builderVars, samplerVars>>

\* lines 151-160 reading the last flag of the list where the code reads the first
RecordErrorWithLast(flags) ==
    /\ pc = "err"
    /\ IF Len(flags) = 0
       THEN /\ Panic("keepErrors: index out of range [0] with length 0")
            /\ UNCHANGED <<errors, i>>
       ELSE IF ~flags[Len(flags)]
       THEN /\ pc' = "loop"
            /\ i' = i + 1
            /\ UNCHANGED <<errors, fault>>
       ELSE IF Len(B) # Len(b)
       THEN /\ Panic("Sub: dimension mismatch")
            /\ UNCHANGED <<errors, i>>
       ELSE IF euclideanNormFaults(Len(b))
       THEN /\ Panic("slice bounds out of range")
            /\ UNCHANGED <<errors, i>>
       ELSE LET column == [j \in 1..Len(b) |-> FSub(b[j], FromInt(B[j]))]
            IN  /\ errors' = [errors EXCEPT ![i + 1] = euclideanNorm(column)]
                /\ pc' = "loop"
                /\ i' = i + 1
                /\ UNCHANGED fault
    /\ UNCHANGED <<x, b, uRandomRow, vRandomRow, points>>
    /\ UNCHANGED <<normVars, inputVars, builderVars, samplerVars>>

\* rand-kcz.go:151-160 for the flag list flags: if flags[0], errors[i] =
\* euclideanNorm(b - B); i++
RecordErrorWith(flags) ==
    /\ pc = "err"
    /\ IF Len(flags) = 0
       THEN /\ Panic("keepErrors: index out of range [0] with length 0")
            /\ UNCHANGED <<errors, i>>
       ELSE IF ~flags[1]
       THEN /\ pc' = "loop"
            /\ i' = i + 1
            /\ UNCHANGED <<errors, fault>>
       ELSE IF Len(B) # Len(b)
       THEN /\ Panic("Sub: dimension mismatch")
            /\ UNCHANGED <<errors, i>>
       ELSE IF euclideanNormFaults(Len(b))
       THEN /\ Panic("slice bounds out of range")
            /\ UNCHANGED <<errors, i>>
       ELSE LET column == [j \in 1..Len(b) |-> FSub(b[j], FromInt(B[j]))]
            IN  /\ errors' = [errors EXCEPT ![i + 1] = euclideanNorm(column)]
                /\ pc' = "loop"
                /\ i' = i + 1
                /\ UNCHANGED fault
    /\ UNCHANGED <<x, b, uRandomRow, vRandomRow, points>>
    /\ UNCHANGED <<normVars, inputVars, builderVars, samplerVars>>

\* rand-kcz.go:151-160 in the call: the flag list is keepErrors
RecordError == RecordErrorWith(keepErrors)

\* rand-kcz.go:112, the loop test failing, and 162-199: the points are built
\* from errors and handed to the plotter, and RkRk returns
Return ==
    /\ pc = "loop"
    /\ i >= iterations
    /\ points' = [k \in 1..iterations |-> <<k - 1, errors[k]>>]
    /\ pc' = "done"
    /\ UNCHANGED <<fault, i, x, b, errors, uRandomRow, vRandomRow>>
    /\ UNCHANGED <<normVars, inputVars, builderVars, samplerVars>>

Next ==
    \/ \E m \in {"U", "V"} : BuilderSpawn(m)
    \/ \E m \in {"U", "V"} : \E r \in 0..(Rows(Matrix(m)) - 1) : computeRowProbability(m, r)
    \/ \E m \in {"U", "V"} : BuilderRecv(m)
    \/ \E m \in {"U", "V"} : BuilderDone(m)
    \/ Wait
    \/ LoopStart
    \/ \E s \in DOMAIN samplers : SamplerDraw(s)
    \/ ReceiveU
    \/ ReceiveV
    \/ UpdateX
    \/ UpdateB
    \/ RecordError
    \/ Return

Spec == Init /\ [][Next]_vars

\* the same program on the smaller family of calls
SpecSmall == InitSmall /\ [][Next]_vars

\* SpecSetup's calls: setup and the first iteration of systems of consistent
\* dimensions with up to SetupRows rows, error tracking on
InitSetup ==
    /\ U \in Matrices(1..SetupRows, ColSizes)
    /\ V \in Matrices(1..SetupRows, ColSizes)
    /\ y = Ramp(Rows(U))
    /\ B = Ramp(Cols(V))
    /\ iterations \in {0, 1}
    /\ keepErrors = <<TRUE>>
    /\ InitRkRk
    /\ IdleNorm

SpecSetup == InitSetup /\ [][Next]_vars


(* ------------- RkRk on matrices with other rows than the identity's ----- *)
\* the one-row matrix of c columns that is 1 in its first and in its last column
Ends(c) == <<[k \in 1..c |-> IF k = 1 \/ k = c THEN 1 ELSE 0]>>

\* the matrices of SpecRows: a row whose length is the worker count, a row that
\* is one longer, and a matrix with a nonzero and a zero row
RowMatrices ==
    {Ends(GOROUTINES), Ends(GOROUTINES + 1), Diag(2, GOROUTINES, <<1, 0>>)}

\* SpecRows's calls: systems of consistent dimensions over RowMatrices, error
\* tracking on
InitRows ==
    /\ U \in RowMatrices
    /\ V \in RowMatrices
    /\ y = Ramp(Rows(U))
    /\ B = Ramp(Cols(V))
    /\ iterations \in 0..RowsIter
    /\ keepErrors = <<TRUE>>
    /\ InitRkRk
    /\ IdleNorm

SpecRows == InitRows /\ [][Next]_vars


(* ------------- RkRk on a V with more rows than U has columns ------------ *)
\* the r x c matrix whose rows are all 1, 0, .., 0
Stack(r, c) == [k \in 1..r |-> Spike(c, 0, 1, 0)]

\* rand-kcz.go:64-68, the value computeRowProbability sends for row r of M
RowValue(M, r) ==
    FDiv(euclideanNorm(Floats(RawRowView(M, r))), frobeniusSquared(M))

\* rand-kcz.go:70-82, the vector getRowsProbability leaves for a matrix whose
\* rows all have the same value (so that the order of arrival does not show)
RowsProbability(M) == [k \in 1..Rows(M) |-> RowValue(M, k - 1)]

\* SpecTall's calls, at the return of wg.Wait() (line 110): U of one row and
\* GOROUTINES columns, so x has GOROUTINES rows; V of one row, of as many rows
\* as U has columns, or of TallRows rows; y and B as U and V ask for; both
\* builders done; error tracking on
InitTall ==
    /\ U = Stack(1, GOROUTINES)
    /\ V \in {Stack(r, GOROUTINES) : r \in {1, GOROUTINES, TallRows}}
    /\ y = Ramp(Rows(U))
    /\ B = Ramp(Cols(V))
    /\ iterations \in {0, 1}
    /\ keepErrors = <<TRUE>>
    /\ pc = "loop" /\ fault = "" /\ i = 0
    /\ errors = Zeros(iterations)
    /\ x = Zeros(Cols(U))
    /\ b = Zeros(Cols(V))
    /\ uRandomRow = 0 /\ vRandomRow = 0 /\ points = <<>>
    /\ uRowsProb = RowsProbability(U)
    /\ vRowsProb = RowsProbability(V)
    /\ wg = 0 /\ closed = {"cU", "cV"}
    /\ gpc = [m \in {"U", "V"} |-> "done"]
    /\ gi = [m \in {"U", "V"} |-> 0]
    /\ gworkers = [m \in {"U", "V"} |-> {}]
    /\ gc = [m \in {"U", "V"} |-> <<>>]
    /\ samplers = <<>>
    /\ delivered = [c \in {"c2", "c3"} |-> [by |-> <<c, -1>>, at |-> -1]]
    /\ IdleNorm

\* rand-kcz.go:112-199, the steps of RkRk and of its samplers from the loop on
NextLoop ==
    \/ LoopStart
    \/ \E s \in DOMAIN samplers : SamplerDraw(s)
    \/ ReceiveU
    \/ ReceiveV
    \/ UpdateX
    \/ UpdateB
    \/ RecordError
    \/ Return

SpecTall == InitTall /\ [][NextLoop]_vars


(* ------------- getRowsProbability alone, for a range of matrices -------- *)
\* the r x c matrix whose row k (1-based) is k at column p (0-based) and 0
\* elsewhere, its last row zeroed when z: rows of distinct norms 1, 4, 9, ..
Column(r, c, p, z) ==
    [k \in 1..r |-> IF z /\ k = r /\ r > 1 THEN Spike(c, 0, 0, 0) ELSE Spike(c, p, k, 0)]

ProbMatrices ==
    UNION {{Column(r, c, p, z) : p \in 0..(c - 1), z \in BOOLEAN} :
             r \in 1..MaxProbRows, c \in 1..MaxProbCols}

\* rand-kcz.go:103-108 for one matrix: the builder of U started, wg counting it
InitProb ==
    /\ U \in ProbMatrices
    /\ V = <<>> /\ y = <<>> /\ B = <<>> /\ iterations = 0 /\ keepErrors = <<>>
    /\ pc = "setup" /\ fault = "" /\ i = 0 /\ errors = <<>>
    /\ x = Zeros(Cols(U)) /\ b = <<>>
    /\ uRandomRow = 0 /\ vRandomRow = 0 /\ points = <<>>
    /\ uRowsProb = Zeros(Rows(U)) /\ vRowsProb = <<>>
    /\ wg = 1 /\ closed = {}
    /\ gpc = [m \in {"U"} |-> "spawn"]
    /\ gi = [m \in {"U"} |-> 0]
    /\ gworkers = [m \in {"U"} |-> {}]
    /\ gc = [m \in {"U"} |-> <<>>]
    /\ samplers = <<>>
    /\ delivered = [c \in {"c2", "c3"} |-> [by |-> <<c, -1>>, at |-> -1]]
    /\ IdleNorm

NextProb ==
    \/ BuilderSpawn("U")
    \/ \E r \in 0..(Rows(U) - 1) : computeRowProbability("U", r)
    \/ BuilderRecv("U")
    \/ BuilderDone("U")

SpecProb == InitProb /\ [][NextProb]_vars

(* --------- getRandomRow alone, for a range of probability vectors ------- *)
\* the entries of the vectors of SpecSampler: 0, 1/RandDen, .., 1 and NaN
ProbEntries == {Frac(k, RandDen) : k \in 0..RandDen} \cup {NonFinite}

ProbVectors == UNION {[1..n -> ProbEntries] : n \in 1..MaxProbLen}

\* go getRandomRow(uRowsProb, Len(uRowsProb), c2) with a caller about to
\* receive on c2
InitSampler ==
    /\ uRowsProb \in ProbVectors
    /\ \E chosen \in RowDraws(Len(uRowsProb)) :
         samplers = (<<"c2", 0>> :> NewSampler(Len(uRowsProb), chosen))
    /\ U = <<>> /\ V = <<>> /\ y = <<>> /\ B = <<>>
    /\ iterations = MaxRecv /\ keepErrors = <<>>
    /\ pc = "recv2" /\ fault = "" /\ i = 0 /\ errors = <<>>
    /\ x = <<>> /\ b = <<>>
    /\ uRandomRow = 0 /\ vRandomRow = 0 /\ points = <<>>
    /\ vRowsProb = <<>>
    /\ wg = 0 /\ closed = {}
    /\ gpc = <<>> /\ gi = <<>> /\ gworkers = <<>> /\ gc = <<>>
    /\ delivered = [c \in {"c2", "c3"} |-> [by |-> <<c, -1>>, at |-> -1]]
    /\ IdleNorm

\* the caller receives on c2, up to MaxRecv times
CallerReceive ==
    /\ pc = "recv2"
    /\ i < MaxRecv
    /\ \E s \in DOMAIN samplers :
         /\ Deliver("c2", s)
         /\ uRandomRow' = samplers[s].chosen
    /\ i' = i + 1
    /\ UNCHANGED <<pc, fault, x, b, errors, vRandomRow, points>>
    /\ UNCHANGED <<normVars, inputVars, builderVars>>

NextSampler ==
    \/ \E s \in DOMAIN samplers : SamplerDraw(s)
    \/ CallerReceive

SpecSampler == InitSampler /\ [][NextSampler]_vars


(* ------------------------------- claims ------------------------------- *)

\* C1 (as claimed, SpecNorm): whatever euclideanNorm returns is exactly the sum
\* of v[i]^2 over all indices of its argument, for every length including those
\* that are no multiple of GOROUTINES.
C1_ReturnsSumOfSquares ==
    npc = "done" => nret = SquaredNorm(Floats(vector))

\* C2 (as claimed, SpecProb): when getRowsProbability is finished, under every
\* order in which the row goroutines sent, probVector[r] is the value computed
\* for row r itself, euclideanNorm(row r) / frobenius.
C2_RowValueAtOwnIndex ==
    gpc["U"] = "done" =>
        \A r \in 0..(Rows(U) - 1) :
            uRowsProb[r + 1] =
                FDiv(euclideanNorm(Floats(RawRowView(U, r))), frobeniusSquared(U))

\* the spec's end-to-end call: U = V = the n x n identity, y = B, tracking on
EndToEnd ==
    /\ \E n \in 1..MaxEye : U = Eye(n, n) /\ V = Eye(n, n)
    /\ y = B
    /\ keepErrors # <<>> /\ keepErrors[1]

\* C3 (as claimed, Spec): the end-to-end call with U = V = identity, y = B and
\* error tracking on runs without fault (the first thing the claim promises,
\* before convergence to x = y, b = y).
C3_EndToEndRunsWithoutFault ==
    EndToEnd => pc # "panic"

\* C4 (as claimed, Spec): a call whose y has another row count than U, or whose
\* B has another length than V has columns, is rejected before any sampler is
\* started and before x or b is modified, so it never starts a getRandomRow
\* goroutine, never changes x or b and never runs to completion.
C4_MismatchRejectedBeforeSampling ==
    ~Consistent =>
        /\ DOMAIN samplers = {}
        /\ x = Zeros(Cols(U)) /\ b = Zeros(Cols(V))
        /\ pc # "done"

\* C4's case: a call with mismatched dimensions has run an iteration and
\* returned normally
C4_Witness ==
    ~Consistent /\ pc = "done" /\ i >= 1

\* C5 (as claimed, Spec): when RkRk has returned, every goroutine started for
\* the call has ended (no sampler is running or blocked on its send, no row
\* worker is left) and every channel created for it is drained and closed.
C5_NothingLeftAtReturn ==
    pc = "done" =>
        /\ DOMAIN samplers = {}
        /\ \A m \in {"U", "V"} : gworkers[m] = {} /\ gc[m] = <<>>
        /\ closed = {"c2", "c3", "cU", "cV"}

\* C5's case: RkRk has returned and a getRandomRow goroutine is blocked on its
\* send
C5_Witness ==
    pc = "done" /\ \E s \in DOMAIN samplers : samplers[s].spc = "send"

\* C6 (as claimed, SpecProb): for a matrix with a nonzero row, the vector
\* getRowsProbability has produced has every entry in [0,1] and entries that
\* sum to 1.
C6_ProbabilitiesSumToOne ==
    (gpc["U"] = "done" /\ FGt(frobeniusSquared(U), FromInt(0))) =>
        /\ \A k \in 1..Len(uRowsProb) :
               FGe(uRowsProb[k], FromInt(0)) /\ FGe(FromInt(1), uRowsProb[k])
        /\ FSeqSum(uRowsProb) = FromInt(1)

\* C7 (as claimed, SpecNorm): euclideanNorm has no error outcome, no chunk slice
\* faults for any vector length, and a zero vector of any length yields 0.
C7_NoSliceFault ==
    /\ npc # "panic"
    /\ (npc = "done" /\ \A k \in 1..Len(vector) : vector[k] = 0) => nret = FromInt(0)

\* rowsProb is 1.0 at index k (0-based) and 0.0 elsewhere
OneHot(rowsProb, k) ==
    \A j \in 1..Len(rowsProb) :
        rowsProb[j] = IF j = k + 1 THEN FromInt(1) ELSE FromInt(0)

\* the index idx is one the sampler may hand over: in range, accepted by the
\* test for some draw, so with a strictly positive entry, and equal to k
\* when rowsProb is 1.0 at k and 0.0 elsewhere
Deliverable(rowsProb, idx) ==
    /\ idx \in 0..(Len(rowsProb) - 1)
    /\ \E random \in Randoms : FGt(rowsProb[idx + 1], random)
    /\ FGt(rowsProb[idx + 1], FromInt(0))
    /\ \A k \in 0..(Len(rowsProb) - 1) : OneHot(rowsProb, k) => idx = k

\* C8 (SpecSampler): every index getRandomRow is about to send, and every index
\* its caller has received, is in [0, maxRows), passed the test rowsProb[index] >
\* random for some draw, so has a strictly positive entry in rowsProb; for
\* a vector that is 1.0 at k and 0.0 elsewhere it is k.
C8_DeliveredIndexAccepted ==
    /\ \A s \in DOMAIN samplers :
           samplers[s].spc = "send" => Deliverable(uRowsProb, samplers[s].chosen)
    /\ delivered["c2"].at >= 0 => Deliverable(uRowsProb, uRandomRow)

\* C8's case: the caller has received an index from a vector of several rows
\* that is 1.0 at one index and 0.0 elsewhere
C8_Witness ==
    /\ delivered["c2"].at >= 0
    /\ Len(uRowsProb) > 1
    /\ \E k \in 0..(Len(uRowsProb) - 1) : OneHot(uRowsProb, k) /\ uRandomRow = k

\* C9 (SpecSmall): with iterations = 0 no sampler is ever started, nothing is
\* received, x and b keep their all-zero initial value, and the error sequence
\* and the points handed to the plotter are empty, whatever the flag list.
C9_ZeroIterationsNoWork ==
    iterations = 0 =>
        /\ DOMAIN samplers = {}
        /\ \A c \in {"c2", "c3"} : delivered[c].at = -1
        /\ x = Zeros(Cols(U)) /\ b = Zeros(Cols(V))
        /\ errors = <<>> /\ points = <<>>

\* C9's case: a call with iterations = 0 and an empty flag list has returned
C9_Witness ==
    iterations = 0 /\ keepErrors = <<>> /\ pc = "done"

AllZero(rowsProb) == \A k \in 1..Len(rowsProb) : rowsProb[k] = FromInt(0)

\* C10 (SpecSmall): once both probability vectors are built (both builders have
\* called Done), if the vector a sampler channel is fed from is all zero and
\* iterations >= 1, no sampler on that channel ever gets to its send, RkRk never
\* receives on it, stays in its first iteration and never returns.
C10_AllZeroNeverDelivers ==
    \A c \in {"c2", "c3"} :
        (wg = 0 /\ iterations >= 1 /\ AllZero(RowsProbOf(c))) =>
            /\ \A s \in DOMAIN samplers : s[1] = c => samplers[s].spc = "draw"
            /\ delivered[c].at = -1
            /\ i = 0
            /\ pc \in {"setup", "loop", "recv2", "recv3"}

\* C10's case: RkRk waits on c2 for a sampler that reads an all-zero vector
C10_Witness ==
    /\ pc = "recv2" /\ iterations >= 1
    /\ AllZero(uRowsProb)
    /\ <<"c2", 0>> \in DOMAIN samplers

\* C11 (SpecSmall): no step of RkRk, of its builders or of its samplers writes
\* to an input: U, V, y and B hold at every step what they held at call time,
\* the x- and b-updates included, whose row matrix aux is a header over the
\* storage of a row of U (resp. V).
C11_InputsNeverWritten ==
    [][U' = U /\ V' = V /\ y' = y /\ B' = B]_vars

\* C11's case: a call has run its x-update and its b-update, both of which
\* changed their vector, and has returned
C11_Witness ==
    /\ pc = "done" /\ i >= 1
    /\ x # Zeros(Cols(U)) /\ b # Zeros(Cols(V))

\* the flag lists of up to MaxFlags flags that agree with flags on the first
SameFirstFlag(flags) ==
    {fl \in UNION {[1..n -> BOOLEAN] : n \in 1..MaxFlags} :
        flags # <<>> /\ fl[1] = flags[1]}

\* C12 (SpecSmall): only the first tracking flag is honored.  The one place
\* that reads the flag list is the error record of lines 151-159, and every
\* step the call takes there is the very step it takes under each flag list
\* that agrees on the first flag and differs later: the same x, b, errors, i
\* and position follow, so two such runs with the same sampled rows stay
\* identical at every step.
C12_OnlyFirstFlagHonored ==
    [][RecordError => \A fl \in SameFirstFlag(keepErrors) : RecordErrorWith(fl)]_vars

\* C12's case: a call with a list of several flags has passed the error
\* record of an iteration
C12_Witness ==
    /\ Len(keepErrors) >= 2
    /\ pc = "loop" /\ i >= 1

\* C13 (as claimed, Spec): a getRandomRow goroutine has ended once RkRk has
\* received its index, and the index RkRk received on c2 (resp. c3) in iteration
\* i came from the sampler started in iteration i.
C13_DeliveredByOwnIterationSampler ==
    \A c \in {"c2", "c3"} :
        delivered[c].at >= 0 =>
            /\ delivered[c].by = <<c, delivered[c].at>>
            /\ delivered[c].by \notin DOMAIN samplers

\* C13's case: the index RkRk received in an iteration came from a sampler
\* started in an earlier iteration
C13_Witness ==
    \E c \in {"c2", "c3"} :
        delivered[c].at >= 1 /\ delivered[c].by[2] < delivered[c].at

\* the number of indices of the sequence s that hold v
Count(s, v) == Cardinality({k \in 1..Len(s) : s[k] = v})

\* the builder of matrix m has received and stored one value for every row:
\* its vector holds the rows' values, each as often as rows have it
StoredAll(m) ==
    LET prob == IF m = "U" THEN uRowsProb ELSE vRowsProb
        vals == [r \in 1..Rows(Matrix(m)) |-> RowValue(Matrix(m), r - 1)]
    IN  /\ gworkers[m] = {} /\ gc[m] = <<>>
        /\ \A k \in 1..Len(vals) : Count(prob, vals[k]) = Count(vals, vals[k])

\* C14 (SpecSetup): setup is a blocking join.  A builder has called Done only
\* when it has received and stored a value for every row; the WaitGroup counts
\* the builders that have not; RkRk is past wg.Wait() only when both have; so
\* whenever a sampler exists both vectors are complete.
C14_SetupIsBlockingJoin ==
    /\ \A m \in {"U", "V"} : gpc[m] = "done" => StoredAll(m)
    /\ wg = Cardinality({m \in {"U", "V"} : gpc[m] # "done"})
    /\ pc \notin {"setup", "panic"} => \A m \in {"U", "V"} : gpc[m] = "done"
    /\ DOMAIN samplers # {} => \A m \in {"U", "V"} : gpc[m] = "done" /\ StoredAll(m)

\* C14's case: the samplers of the first iteration run on vectors of several
\* rows
C14_Witness ==
    /\ pc = "recv2" /\ i = 0
    /\ DOMAIN samplers = {<<"c2", 0>>, <<"c3", 0>>}
    /\ Rows(U) > 1 /\ Rows(V) > 1

\* the order of the steps of RkRk: setup, then per iteration the two receives,
\* the x-update, the b-update and the error record, then the return
StepOrder ==
    {<<"setup", "loop">>, <<"loop", "recv2">>, <<"recv2", "recv3">>,
     <<"recv3", "updx">>, <<"updx", "updb">>, <<"updb", "err">>,
     <<"err", "loop">>, <<"loop", "done">>}

\* C15 (Spec): in every step of every run, RkRk moves on only along the order
\* sample both rows, update x, update b, record error (or faults); x changes
\* only in the x-update, b only in the b-update that follows it, errors only in
\* the error record, and i only at the end of an iteration, by one; so no step
\* of a builder or a sampler writes them, the b-update reads the x its own
\* iteration's x-update left, and an iteration starts from the x and b the
\* one before it completed.
C15_StepsInOrder ==
    [][/\ pc' # pc => (<<pc, pc'>> \in StepOrder \/ pc' = "panic")
       /\ x' # x => (pc = "updx" /\ pc' = "updb")
       /\ b' # b => (pc = "updb" /\ pc' = "err")
       /\ errors' # errors => (pc = "err" /\ pc' = "loop")
       /\ i' # i => (pc = "err" /\ pc' = "loop" /\ i' = i + 1)
       /\ (pc = "updb" /\ pc' = "err") =>
              LET row == Floats(RawRowView(V, vRandomRow))
              IN  b' = AddScaled(b, FDiv(FSub(x[vRandomRow + 1], Dot(row, b)),
                                         euclideanNorm(row)), row)
      ]_vars

\* C15's case: the second iteration has updated x and b, and x holds what the
\* x-updates of both iterations put there
C15_Witness ==
    /\ pc = "err" /\ i = 1
    /\ Cardinality({k \in 1..Len(x) : x[k] # FromInt(0)}) >= 2
    /\ b # Zeros(Cols(V))

\* C16 (as claimed, SpecRows): right after the x-update with a row of U of
\* nonzero norm, that row times x is y[uRow]; right after the b-update with a row
\* of V of nonzero norm, that row times b is x[vRow]; for every column count.
C16_UpdateProjectsExactly ==
    /\ pc = "updb" =>
          LET row == Floats(RawRowView(U, uRandomRow))
          IN  SquaredNorm(row) # FromInt(0) =>
                  Dot(row, x) = FromInt(y[uRandomRow + 1])
    /\ pc = "err" =>
          LET row == Floats(RawRowView(V, vRandomRow))
          IN  SquaredNorm(row) # FromInt(0) =>
                  Dot(row, b) = x[vRandomRow + 1]

\* C16's case: the x-update with a row of GOROUTINES + 1 columns and nonzero
\* norm has left a finite x off the sampled equation
C16_Witness ==
    /\ pc = "updb" /\ Cols(U) = GOROUTINES + 1
    /\ \A k \in 1..Len(x) : IsFinite(x[k])
    /\ Dot(Floats(RawRowView(U, uRandomRow)), x) # FromInt(y[uRandomRow + 1])

\* row r of M is a zero row
ZeroRow(M, r) == \A k \in 1..Cols(M) : RawRowView(M, r)[k] = 0

\* C19 (as claimed, SpecRows): for a matrix with frobenius > 0, once its
\* probability vector is built a zero row has probability entry 0, and the row
\* RkRk is about to use for its x-update (resp. b-update) is no zero row, so
\* the divisor euclideanNorm(chosenRow) is not zero.
C19_ZeroRowNeverUsed ==
    /\ (gpc["U"] = "done" /\ FGt(frobeniusSquared(U), FromInt(0))) =>
          /\ \A r \in 0..(Rows(U) - 1) : ZeroRow(U, r) => uRowsProb[r + 1] = FromInt(0)
          /\ pc = "updx" =>
                 /\ ~ZeroRow(U, uRandomRow)
                 /\ euclideanNorm(Floats(RawRowView(U, uRandomRow))) # FromInt(0)
    /\ (gpc["V"] = "done" /\ FGt(frobeniusSquared(V), FromInt(0))) =>
          /\ \A r \in 0..(Rows(V) - 1) : ZeroRow(V, r) => vRowsProb[r + 1] = FromInt(0)
          /\ pc = "updb" =>
                 /\ ~ZeroRow(V, vRandomRow)
                 /\ euclideanNorm(Floats(RawRowView(V, vRandomRow))) # FromInt(0)

\* C19's case: the x-update has divided by the zero norm of a zero row of a
\* matrix with frobenius > 0, and x is no longer finite
C19_Witness ==
    /\ pc = "updb"
    /\ FGt(frobeniusSquared(U), FromInt(0))
    /\ ZeroRow(U, uRandomRow)
    /\ \E k \in 1..Len(x) : ~IsFinite(x[k])

AllPositive(rowsProb) == \A k \in 1..Len(rowsProb) : FGt(rowsProb[k], FromInt(0))

\* both probability vectors are built and strictly positive, for a call within
\* the interface constraints
PositiveVectors ==
    /\ wg = 0
    /\ AllPositive(uRowsProb) /\ AllPositive(vRowsProb)
    /\ Consistent /\ Rows(V) <= Cols(U)

\* C17 (as claimed, SpecSmall; the part a finite run decides): given strictly
\* positive probability vectors, RkRk's loop does not stop short of completion
\* by a fault, each iteration it has completed received one index on c2 and
\* one on c3, and when RkRk has returned it has executed exactly `iterations`
\* iterations.
C17_LoopRunsToCompletion ==
    PositiveVectors =>
        /\ pc # "panic"
        /\ i <= iterations
        /\ i >= 1 => \A c \in {"c2", "c3"} : delivered[c].at = i - 1 \/ delivered[c].at = i
        /\ pc = "done" => i = iterations

\* C17's case: with strictly positive vectors, the first iteration has received
\* an index on c2 and on c3, and the loop has stopped in it by a fault
C17_Witness ==
    /\ PositiveVectors
    /\ iterations >= 1 /\ i = 0
    /\ \A c \in {"c2", "c3"} : delivered[c].at = 0
    /\ pc = "panic"

\* the matrix whose rows the sampler on channel c draws from
MatrixOf(c) == IF c = "c2" THEN U ELSE V

\* C18 (SpecTall): every sampler's index is below the row count of its matrix;
\* for a call within the interface constraints with vrows <= ucols, in every
\* iteration uRow is in range for U and y, vRow is in range for V and for the
\* read x[vRow], and no index fault happens; with vrows > ucols a vRow >=
\* ucols never gets past the read x[vRow], and a fault there is the fault of
\* such a vRow.
C18_IndicesInRange ==
    /\ \A s \in DOMAIN samplers :
           /\ samplers[s].maxRows = Rows(MatrixOf(s[1]))
           /\ samplers[s].chosen \in 0..(Rows(MatrixOf(s[1])) - 1)
    /\ (Consistent /\ Rows(V) <= Cols(U)) =>
           /\ pc \in {"updx", "updb", "err"} =>
                  /\ uRandomRow \in 0..(Rows(U) - 1) /\ uRandomRow < Len(y)
                  /\ vRandomRow \in 0..(Rows(V) - 1) /\ vRandomRow < Len(x)
           /\ fault \notin {"y: row index out of range", "x: row index out of range"}
    /\ (Consistent /\ Rows(V) > Cols(U)) =>
           /\ pc = "err" => vRandomRow < Len(x)
           /\ fault = "x: row index out of range" =>
                  pc = "panic" /\ vRandomRow >= Cols(U) /\ vRandomRow < Rows(V)

\* C18's case: with vrows > ucols a vRow >= ucols was sampled and RkRk has
\* faulted at the read x[vRow]
C18_Witness ==
    /\ Consistent /\ Rows(V) > Cols(U)
    /\ vRandomRow >= Cols(U)
    /\ pc = "panic" /\ fault = "x: row index out of range"

\* C20 (as claimed, SpecSmall): a call with an empty flag list behaves as one
\* with error tracking off: reading the flag faults in no iteration, the loop
\* gets through every iteration it starts, and no error value is recorded.
C20_EmptyFlagListIsTrackingOff ==
    keepErrors = <<>> =>
        /\ fault # "keepErrors: index out of range [0] with length 0"
        /\ (pc = "err" => ENABLED (RecordError /\ pc' = "loop"))
        /\ errors = Zeros(iterations)

\* C20's case: a call with an empty flag list has updated x and b in its
\* first iteration and has faulted reading keepErrors[0]
C20_Witness ==
    /\ keepErrors = <<>> /\ iterations >= 1
    /\ b # Zeros(Cols(V))
    /\ pc = "panic" /\ fault = "keepErrors: index out of range [0] with length 0"

=============================================================================
